---- MODULE Spec2Model ----
(***************************************************************************)
(* A model of giraffe70/yt-sub-downloader:                                 *)
(*   utils/fetch_info.py       fetch_video_info, fetch_comments            *)
(*   utils/subtitle_handler.py create_zip_in_memory, fetch_url_content,    *)
(*                             download_subtitles_concurrently,            *)
(*                             download_subtitles_in_batch                 *)
(*   app.py                    parse / reset / preview / download / retry  *)
(*                                                                         *)
(* Python values of mixed type are encoded as records so that they can be  *)
(* compared: a like_count is [t |-> "int", v |-> n], [t |-> "missing"]     *)
(* (key absent), [t |-> "none"] (null) or [t |-> "str"] (non-numeric       *)
(* text); None as a mapping value is the record NoneVal.                   *)
(***************************************************************************)
EXTENDS Integers, Sequences, FiniteSets, TLC

VARIABLES
    \* ---- fetch_comments (utils/fetch_info.py) ----
    all_comments_raw,   \* the provider's flat comment list
    top_k,              \* arguments of fetch_comments
    sort_by,
    min_likes,
    min_reply_likes,
    comments_pc,        \* "ready" | "done"
    comments_out,       \* what the call produced: [raised, roots]
    \* ---- download_subtitles_in_batch / download_subtitles_concurrently ----
    langs_to_download,  \* argument: the list of requested languages
    all_sub_info,       \* argument: the track catalog, language -> formats
    batch_pc,           \* "ready" | "pool" | "returned_early" | "returned" | "raised"
    batch_caller,       \* who entered the pool: "batch" | "app"
    batch_out,          \* the mapping the call returned
    lang_to_url_map,    \* argument of download_subtitles_concurrently
    futures,            \* future_to_lang: language -> [state, outcome]
    results,            \* the results dict being filled
    pool_raised,        \* an exception left download_subtitles_concurrently
    \* ---- create_zip_in_memory ----
    files_data,         \* argument: insertion-ordered filename -> payload
    zip_pc,             \* "ready" | "done"
    zip_out,            \* None or the archive's entries
    \* ---- convert_vtt_to_txt / convert_vtt_to_srt ----
    vtt_content,        \* argument: [none, text], text a list of characters
    conv_pc,            \* "ready" | "done"
    txt_out,            \* what convert_vtt_to_txt returned
    srt_out,            \* what convert_vtt_to_srt returned
    srt_again,          \* convert_vtt_to_srt applied to srt_out
    \* ---- app.py: st.session_state and the page's run ----
    url_input,          \* the URL text field
    info,               \* the metadata document, or NoInfo
    subtitles,          \* the track catalog of the parsed video
    selected_langs,
    chk,                \* the per-language checkboxes ("chk-<lang>")
    select_all_langs_cb,
    selected_formats,
    preview_lang,       \* "" is None
    processed_results,
    download_clicked,   \* the download button was pressed for this run
    app_pc,             \* "idle" | "info_calling" | "info_sleeping" | "body"
    \* ---- fetch_video_info's loop ----
    info_attempt,
    info_trace,         \* provider calls and sleeps of the invocation, in order
    info_result,        \* "none" | "running" | "returned" | "raised"
    \* ---- st.cache_data around download_subtitles_in_batch, and time ----
    cache,              \* key -> [value, stored_at, before_parse]
    now,                \* seconds
    \* ---- history, for stating the properties ----
    call_log,           \* key -> [at, value] of its last call since an invalidation
    fetch_log,          \* key -> [at, value] of its last executed call since one
    last_call,          \* what the last call of download_subtitles_in_batch did
    invalidated         \* the keys the request being served removed from the cache

commentVars == <<all_comments_raw, top_k, sort_by, min_likes, min_reply_likes,
                 comments_pc, comments_out>>

batchVars == <<langs_to_download, all_sub_info, batch_pc, batch_caller, batch_out,
               lang_to_url_map, futures, results, pool_raised>>

zipVars == <<files_data, zip_pc, zip_out>>

convVars == <<vtt_content, conv_pc, txt_out, srt_out, srt_again>>

appVars == <<url_input, info, subtitles, selected_langs, chk, select_all_langs_cb,
             selected_formats, preview_lang, processed_results, download_clicked,
             app_pc, info_attempt, info_trace, info_result, cache, now,
             call_log, fetch_log, last_call, invalidated>>

vars == <<commentVars, batchVars, zipVars, convVars, appVars>>

(***************************************************************************)
(* Bounds of the model.                                                    *)
(***************************************************************************)
MaxComments == 2
MaxThread == 3
MaxRequested == 2
MaxFiles == 3
MaxLines == 3
MaxPieces == 3
MaxTicks == 2

(***************************************************************************)
(* Program constants.                                                      *)
(***************************************************************************)
max_workers == 10
max_retries == 1
backoff_seconds == 5
ttl == 3600

----------------------------------------------------------------------------
(***************************************************************************)
(* Generic Python list helpers.                                            *)
(***************************************************************************)

\* s[:k] of a Python list: the first k elements for k >= 0, and all but the
\* last -k elements for k < 0.
SliceTo(s, k) ==
    LET n == Len(s)
        m == IF k >= 0 THEN (IF k < n THEN k ELSE n)
                       ELSE (IF n + k > 0 THEN n + k ELSE 0)
    IN  SubSeq(s, 1, m)

----------------------------------------------------------------------------
(***************************************************************************)
(* fetch_comments: the comment tree build (utils/fetch_info.py 88-140).    *)
(***************************************************************************)

Cids == {"a", "b"}

\* c.get('parent'): "" stands for an absent, null or empty parent reference
\* (all falsy in Python), "root" is the provider's root sentinel.
ParentRefs == {"", "root"} \cup Cids

LikeInts == 0 .. 2

\* c.get('like_count', 0) before conversion.
LikeCounts ==
    {[t |-> "missing", v |-> 0], [t |-> "none", v |-> 0], [t |-> "str", v |-> 0]}
        \cup {[t |-> "int", v |-> n] : n \in LikeInts}

\* One entry of the provider's list without its payload: a record (dict) or
\* something that is not a dict.
RawShapes ==
    {[dict |-> FALSE, id |-> "", parent |-> "", like_count |-> [t |-> "missing", v |-> 0]]}
        \cup [dict : {TRUE}, id : Cids, parent : ParentRefs, like_count : LikeCounts]

\* The payload (author, text) of the i-th raw entry is modelled by its
\* position i, which the build copies through unchanged.
WithText(shapes) ==
    [i \in DOMAIN shapes |->
        [dict |-> shapes[i].dict, id |-> shapes[i].id, parent |-> shapes[i].parent,
         like_count |-> shapes[i].like_count, text |-> i]]

Thresholds == {0, 1}

SortModes == {"top", "new"}

TopKs == -1 .. MaxComments

\* int(c.get('like_count', 0)): the default 0 when the key is absent, the
\* integer itself, TypeError on None and ValueError on non-numeric text.
IntOfLikeCount(lc) ==
    CASE lc.t = "missing" -> [ok |-> TRUE,  v |-> 0]
      [] lc.t = "int"     -> [ok |-> TRUE,  v |-> lc.v]
      [] OTHER            -> [ok |-> FALSE, v |-> 0]

_mk_root(c) ==
    [cid |-> c.id, text |-> c.text,
     like_count |-> IntOfLikeCount(c.like_count).v, replies |-> <<>>]

_mk_reply(c, parent_cid) ==
    [cid |-> c.id, parent_cid |-> parent_cid, text |-> c.text,
     like_count |-> IntOfLikeCount(c.like_count).v]

\* AppendReply assigning instead of appending: replies_map[parent_id] = [r].
AppendReplyOverwriting(replies_map, parent_id, r) ==
    [p \in DOMAIN replies_map \cup {parent_id} |->
        IF p = parent_id THEN <<r>> ELSE replies_map[p]]

\* replies_map[parent_id].append(r) on a defaultdict(list).
AppendReply(replies_map, parent_id, r) ==
    IF parent_id \in DOMAIN replies_map
    THEN [replies_map EXCEPT ![parent_id] = Append(@, r)]
    ELSE [p \in DOMAIN replies_map \cup {parent_id} |->
            IF p = parent_id THEN <<r>> ELSE replies_map[p]]

\* One iteration of the classification loop (lines 111-125) on entry c, from
\* the loop state st = [raised, potential_roots, replies_map].
ClassifyOne(st, c, minLikes, minReplyLikes) ==
    IF st.raised \/ ~c.dict THEN st
    ELSE IF ~IntOfLikeCount(c.like_count).ok
         THEN [st EXCEPT !.raised = TRUE]
    ELSE IF c.parent = "" \/ c.parent = "root"
         THEN IF IntOfLikeCount(c.like_count).v >= minLikes
              THEN [st EXCEPT !.potential_roots = Append(@, _mk_root(c))]
              ELSE st
    ELSE IF IntOfLikeCount(c.like_count).v >= minReplyLikes
         THEN [st EXCEPT !.replies_map = AppendReply(@, c.parent, _mk_reply(c, c.parent))]
         ELSE st

RECURSIVE ClassifyFrom(_, _, _, _, _)
ClassifyFrom(st, raw, i, minLikes, minReplyLikes) ==
    IF i > Len(raw) THEN st
    ELSE ClassifyFrom(ClassifyOne(st, raw[i], minLikes, minReplyLikes),
                      raw, i + 1, minLikes, minReplyLikes)

Classify(raw, minLikes, minReplyLikes) ==
    ClassifyFrom([raised |-> FALSE, potential_roots |-> <<>>,
                  replies_map |-> [p \in {} |-> <<>>]],
                 raw, 1, minLikes, minReplyLikes)

\* Insert r into a list already in non-increasing like_count order, after
\* every element with at least as many likes (so ties keep their order).
RECURSIVE InsertDesc(_, _)
InsertDesc(sorted, r) ==
    IF sorted = <<>> THEN <<r>>
    ELSE IF Head(sorted).like_count >= r.like_count
         THEN <<Head(sorted)>> \o InsertDesc(Tail(sorted), r)
         ELSE <<r>> \o sorted

\* potential_roots.sort(key=like_count, reverse=True): Python's sort is
\* stable, also with reverse=True.
RECURSIVE SortByLikesDesc(_)
SortByLikesDesc(roots) ==
    IF roots = <<>> THEN <<>>
    ELSE InsertDesc(SortByLikesDesc(SubSeq(roots, 1, Len(roots) - 1)),
                    roots[Len(roots)])

\* Lines 128-129.
OrderRoots(roots, sortBy) ==
    IF sortBy = "top" THEN SortByLikesDesc(roots) ELSE roots

\* Line 132: final_roots = potential_roots[:top_k].
TruncateRoots(roots, k) == SliceTo(roots, k)

\* Lines 135-138.
AttachReplies(final_roots, replies_map) ==
    [i \in DOMAIN final_roots |->
        IF final_roots[i].cid # "" /\ final_roots[i].cid \in DOMAIN replies_map
        THEN [final_roots[i] EXCEPT !.replies = replies_map[final_roots[i].cid]]
        ELSE final_roots[i]]

\* Lines 88-140: the build on a raw list the provider delivered.
BuildCommentTree(raw, k, sortBy, minLikes, minReplyLikes) ==
    LET st == Classify(raw, minLikes, minReplyLikes)
    IN  IF st.raised
        THEN [raised |-> TRUE, roots |-> <<>>]
        ELSE [raised |-> FALSE,
              roots  |-> AttachReplies(
                            TruncateRoots(OrderRoots(st.potential_roots, sortBy), k),
                            st.replies_map)]

NoComments == [raised |-> FALSE, roots |-> <<>>]

InitComments ==
    /\ \E n \in 0 .. MaxComments :
         \E shapes \in [1 .. n -> RawShapes] : all_comments_raw = WithText(shapes)
    /\ top_k \in TopKs
    /\ sort_by \in SortModes
    /\ min_likes \in Thresholds
    /\ min_reply_likes \in Thresholds
    /\ comments_pc = "ready"
    /\ comments_out = NoComments

\* The entries of one comment thread and its neighbourhood: records with a
\* numeric or absent like_count that are roots (no parent, or the root
\* sentinel) or replies to comment "a", and an entry that is not a record.
ThreadShapes ==
    {s \in RawShapes :
        \/ ~s.dict
        \/ /\ s.parent \in {"", "root", "a"}
           /\ s.like_count \in {[t |-> "missing", v |-> 0], [t |-> "int", v |-> 1]}}

\* fetch_comments called on a list of up to MaxThread such entries.
InitThread ==
    /\ \E n \in 0 .. MaxThread :
         \E shapes \in [1 .. n -> ThreadShapes] : all_comments_raw = WithText(shapes)
    /\ top_k \in TopKs
    /\ sort_by \in SortModes
    /\ min_likes \in Thresholds
    /\ min_reply_likes \in Thresholds
    /\ comments_pc = "ready"
    /\ comments_out = NoComments

CommentsIdle ==
    /\ all_comments_raw = <<>>
    /\ top_k = 0
    /\ sort_by = "top"
    /\ min_likes = 0
    /\ min_reply_likes = 0
    /\ comments_pc = "ready"
    /\ comments_out = NoComments

\* fetch_comments when the provider delivers info['comments'] as a list.
FetchComments ==
    /\ comments_pc = "ready"
    /\ comments_pc' = "done"
    /\ comments_out' = BuildCommentTree(all_comments_raw, top_k, sort_by,
                                        min_likes, min_reply_likes)
    /\ UNCHANGED <<all_comments_raw, top_k, sort_by, min_likes, min_reply_likes>>
    /\ UNCHANGED <<batchVars, zipVars, convVars, appVars>>

\* fetch_comments when the provider raises, returns no document or a document
\* without a comment list (lines 76-86): the result is [].
FetchCommentsUnavailable ==
    /\ comments_pc = "ready"
    /\ comments_pc' = "unavailable"
    /\ comments_out' = NoComments
    /\ UNCHANGED <<all_comments_raw, top_k, sort_by, min_likes, min_reply_likes>>
    /\ UNCHANGED <<batchVars, zipVars, convVars, appVars>>

NextComments == FetchComments \/ FetchCommentsUnavailable

----------------------------------------------------------------------------
(***************************************************************************)
(* Subtitle retrieval (utils/subtitle_handler.py 55-113).                  *)
(***************************************************************************)

Langs == {"en", "fr"}

\* Python's None as a mapping value, a response body, and an empty body.
NoneVal == [kind |-> "None", lang |-> "", n |-> 0]
EmptyText == [kind |-> "text", lang |-> "", n |-> 0]

\* The n-th retrieval URL the provider lists for a language, and the body a
\* successful GET of that URL returns.
UrlOf(lang, n) == [kind |-> "url", lang |-> lang, n |-> n]
TextAt(url) == [kind |-> "text", lang |-> url.lang, n |-> url.n]

Truthy(v) == v # NoneVal /\ v # EmptyText

\* The encodings a catalog entry may list ('formats'; an absent key reads as
\* the empty list).
FormatLists(lang) ==
    { <<>>,
      <<[ext |-> "json3", url |-> UrlOf(lang, 1)]>>,
      <<[ext |-> "json3", url |-> UrlOf(lang, 1)], [ext |-> "vtt", url |-> UrlOf(lang, 2)]>>,
      <<[ext |-> "vtt", url |-> UrlOf(lang, 1)], [ext |-> "vtt", url |-> UrlOf(lang, 2)]>> }

\* The catalogs get_available_subtitles can produce over Langs.
Catalogs ==
    UNION {{c \in [S -> UNION {FormatLists(l) : l \in S}] :
                \A l \in S : c[l] \in FormatLists(l)} : S \in SUBSET Langs}

EmptyMap == [l \in {} |-> NoneVal]

\* What one GET can do: a body, an empty body, a non-2xx status, a timeout, a
\* transport error (all three are requests.RequestException), or an exception
\* of another class.
Outcomes == {"ok", "empty", "http_error", "timeout", "transport", "unexpected"}

\* fetch_url_content (lines 55-67): the body, None when a RequestException is
\* caught, and any other exception leaves the function.
fetch_url_content(url, outcome) ==
    CASE outcome = "ok"         -> [raised |-> FALSE, value |-> TextAt(url)]
      [] outcome = "empty"      -> [raised |-> FALSE, value |-> EmptyText]
      [] outcome = "unexpected" -> [raised |-> TRUE,  value |-> NoneVal]
      [] OTHER                  -> [raised |-> FALSE, value |-> NoneVal]

\* future.result() without the try / except around it.
CollectedValueUncaught(url, outcome) == fetch_url_content(url, outcome)

\* Lines 82-87: content = future.result() inside try / except Exception.
CollectedValue(url, outcome) ==
    IF fetch_url_content(url, outcome).raised
    THEN [raised |-> FALSE, value |-> NoneVal]
    ELSE [raised |-> FALSE, value |-> fetch_url_content(url, outcome).value]

\* The index of the first 'vtt' encoding of a formats list, 0 when none
\* (lines 105-108: the loop breaks at the first match).
RECURSIVE FirstVtt(_, _)
FirstVtt(formats, i) ==
    IF i > Len(formats) THEN 0
    ELSE IF formats[i].ext = "vtt" THEN i
    ELSE FirstVtt(formats, i + 1)

\* Lines 101-108 (and app.py 279-290): language -> URL of its vtt encoding, for
\* the requested languages that are in the catalog and have one.
ResolveTargetUrls(langs, catalog) ==
    LET found == {l \in Langs :
                    /\ \E i \in DOMAIN langs : langs[i] = l
                    /\ l \in DOMAIN catalog
                    /\ FirstVtt(catalog[l], 1) # 0}
    IN  [l \in found |-> catalog[l][FirstVtt(catalog[l], 1)].url]

\* Line 111: {lang: None for lang in langs_to_download}.
AllNone(langs) == [l \in {langs[i] : i \in DOMAIN langs} |-> NoneVal]

\* Lines 98-99: not langs_to_download or not all_sub_info.
NothingToDo(langs, catalog) == langs = <<>> \/ DOMAIN catalog = {}

RequestLists ==
    UNION {[1 .. n -> Langs] : n \in 0 .. MaxRequested}

BatchIdle ==
    /\ langs_to_download = <<>>
    /\ all_sub_info = EmptyMap
    /\ batch_pc = "ready"
    /\ batch_caller = "none"
    /\ batch_out = EmptyMap
    /\ lang_to_url_map = EmptyMap
    /\ futures = EmptyMap
    /\ results = EmptyMap
    /\ pool_raised = FALSE

InitBatch ==
    /\ langs_to_download \in RequestLists
    /\ all_sub_info \in Catalogs
    /\ batch_pc = "ready"
    /\ batch_caller = "none"
    /\ batch_out = EmptyMap
    /\ lang_to_url_map = EmptyMap
    /\ futures = EmptyMap
    /\ results = EmptyMap
    /\ pool_raised = FALSE

\* Line 78: one task is submitted per entry of the mapping.
SubmitAll(map) == [l \in DOMAIN map |-> [state |-> "pending", outcome |-> "none"]]

\* download_subtitles_in_batch returning before any request (lines 98-99 and
\* 110-111).
BatchReturnsEarly ==
    /\ batch_pc = "ready"
    /\ \/ /\ NothingToDo(langs_to_download, all_sub_info)
          /\ batch_out' = EmptyMap
       \/ /\ ~NothingToDo(langs_to_download, all_sub_info)
          /\ DOMAIN ResolveTargetUrls(langs_to_download, all_sub_info) = {}
          /\ batch_out' = AllNone(langs_to_download)
    /\ batch_pc' = "returned_early"
    /\ batch_caller' = "batch"
    /\ UNCHANGED <<langs_to_download, all_sub_info, lang_to_url_map, futures,
                   results, pool_raised>>
    /\ UNCHANGED <<commentVars, zipVars, convVars, appVars>>

\* download_subtitles_in_batch reaching line 113: the resolved URLs enter
\* download_subtitles_concurrently, which submits one task per entry.
BatchEntersPool ==
    /\ batch_pc = "ready"
    /\ ~NothingToDo(langs_to_download, all_sub_info)
    /\ DOMAIN ResolveTargetUrls(langs_to_download, all_sub_info) # {}
    /\ lang_to_url_map' = ResolveTargetUrls(langs_to_download, all_sub_info)
    /\ futures' = SubmitAll(lang_to_url_map')
    /\ results' = EmptyMap
    /\ batch_pc' = "pool"
    /\ batch_caller' = "batch"
    /\ UNCHANGED <<langs_to_download, all_sub_info, batch_out, pool_raised>>
    /\ UNCHANGED <<commentVars, zipVars, convVars, appVars>>

\* app.py 276-293: the download button calls download_subtitles_concurrently
\* itself, with the URLs of the selected languages (possibly none).
AppEntersPool ==
    /\ batch_pc = "ready"
    /\ lang_to_url_map' = ResolveTargetUrls(langs_to_download, all_sub_info)
    /\ futures' = SubmitAll(lang_to_url_map')
    /\ results' = EmptyMap
    /\ batch_pc' = "pool"
    /\ batch_caller' = "app"
    /\ UNCHANGED <<langs_to_download, all_sub_info, batch_out, pool_raised>>
    /\ UNCHANGED <<commentVars, zipVars, convVars, appVars>>

Running == {l \in DOMAIN futures : futures[l].state = "running"}

\* A worker of the pool takes a queued task (at most max_workers at a time).
TaskStarts(l) ==
    /\ batch_pc = "pool"
    /\ l \in DOMAIN futures
    /\ futures[l].state = "pending"
    /\ Cardinality(Running) < max_workers
    /\ futures' = [futures EXCEPT ![l].state = "running"]
    /\ UNCHANGED <<langs_to_download, all_sub_info, batch_pc, batch_caller, batch_out,
                   lang_to_url_map, results, pool_raised>>
    /\ UNCHANGED <<commentVars, zipVars, convVars, appVars>>

\* The task's GET ends, one way or another.
TaskEnds(l, outcome) ==
    /\ batch_pc = "pool"
    /\ l \in DOMAIN futures
    /\ futures[l].state = "running"
    /\ futures' = [futures EXCEPT ![l] = [state |-> "done", outcome |-> outcome]]
    /\ UNCHANGED <<langs_to_download, all_sub_info, batch_pc, batch_caller, batch_out,
                   lang_to_url_map, results, pool_raised>>
    /\ UNCHANGED <<commentVars, zipVars, convVars, appVars>>

\* Lines 80-87: as_completed hands the caller a finished future it has not
\* seen yet, and its result (or None) is stored under its language.
StoreResult(res, l, cv) ==
    [k \in DOMAIN res \cup {l} |-> IF k = l THEN cv.value ELSE res[k]]

Collect(l) ==
    /\ batch_pc = "pool"
    /\ l \in DOMAIN futures
    /\ futures[l].state = "done"
    /\ l \notin DOMAIN results
    /\ LET cv == CollectedValue(lang_to_url_map[l], futures[l].outcome)
       IN  IF cv.raised
           THEN /\ pool_raised' = TRUE
                /\ batch_pc' = "raised"
                /\ UNCHANGED results
           ELSE /\ results' = StoreResult(results, l, cv)
                /\ UNCHANGED <<pool_raised, batch_pc>>
    /\ UNCHANGED <<langs_to_download, all_sub_info, batch_caller, batch_out,
                   lang_to_url_map, futures>>
    /\ UNCHANGED <<commentVars, zipVars, convVars, appVars>>

\* as_completed is exhausted once every submitted future has been handed out.
AllCollected == DOMAIN results = DOMAIN futures

\* Line 88 (and 113): the filled dict is returned.
PoolReturns ==
    /\ batch_pc = "pool"
    /\ AllCollected
    /\ batch_out' = results
    /\ batch_pc' = "returned"
    /\ UNCHANGED <<langs_to_download, all_sub_info, batch_caller, lang_to_url_map,
                   futures, results, pool_raised>>
    /\ UNCHANGED <<commentVars, zipVars, convVars, appVars>>

NextBatch ==
    \/ BatchReturnsEarly
    \/ BatchEntersPool
    \/ AppEntersPool
    \/ \E l \in Langs : TaskStarts(l)
    \/ \E l \in Langs, o \in Outcomes : TaskEnds(l, o)
    \/ \E l \in Langs : Collect(l)
    \/ PoolReturns

----------------------------------------------------------------------------
(***************************************************************************)
(* create_zip_in_memory (utils/subtitle_handler.py 40-52).                 *)
(***************************************************************************)

Filenames == {"a.txt", "b.srt", "c.txt"}

\* A payload: None, b"" or non-empty bytes.
NoBytes == [kind |-> "None", data |-> ""]
EmptyBytes == [kind |-> "bytes", data |-> ""]
Payloads == {NoBytes, EmptyBytes, [kind |-> "bytes", data |-> "x"],
             [kind |-> "bytes", data |-> "y"]}

\* HasContent testing only for None: b"" is written as an entry.
HasContentNotNone(content) == content # NoBytes

\* `if content`: None and b"" are falsy.
HasContent(content) == content # NoBytes /\ content # EmptyBytes

\* A dict in insertion order: a list of (filename, content) items with
\* distinct filenames.
FileMaps ==
    UNION {{f \in [1 .. n -> [filename : Filenames, content : Payloads]] :
                \A i, j \in 1 .. n : i # j => f[i].filename # f[j].filename} :
            n \in 0 .. MaxFiles}

\* Lines 45-47: zipf.writestr for every item with content, in order.
RECURSIVE WriteEntries(_, _)
WriteEntries(items, i) ==
    IF i > Len(items) THEN <<>>
    ELSE IF HasContent(items[i].content)
         THEN <<items[i]>> \o WriteEntries(items, i + 1)
         ELSE WriteEntries(items, i + 1)

\* The function's result: None for an empty mapping, else the bytes of the
\* archive, modelled by the list of entries written to it.
create_zip_in_memory(items) ==
    IF items = <<>>
    THEN [none |-> TRUE,  entries |-> <<>>]
    ELSE [none |-> FALSE, entries |-> WriteEntries(items, 1)]

ZipIdle ==
    /\ files_data = <<>>
    /\ zip_pc = "ready"
    /\ zip_out = [none |-> TRUE, entries |-> <<>>]

InitZip ==
    /\ files_data \in FileMaps
    /\ zip_pc = "ready"
    /\ zip_out = [none |-> TRUE, entries |-> <<>>]

CreateZip ==
    /\ zip_pc = "ready"
    /\ zip_out' = create_zip_in_memory(files_data)
    /\ zip_pc' = "done"
    /\ UNCHANGED files_data
    /\ UNCHANGED <<commentVars, batchVars, convVars, appVars>>

NextZip == CreateZip

----------------------------------------------------------------------------
(***************************************************************************)
(* convert_vtt_to_txt (utils/subtitle_handler.py 17-29).  A text is a list *)
(* of characters; an HTML entity ("&lt;") and a header word ("WEBVTT",     *)
(* "Kind:", "Language:") count as one character each.                      *)
(***************************************************************************)

NoText == [none |-> TRUE, text |-> <<>>]

TextOf(chars) == [none |-> FALSE, text |-> chars]

\* What str.strip() removes.
Whitespace == {" ", "\n"}

RECURSIVE LStripSpace(_)
LStripSpace(s) ==
    IF s # <<>> /\ Head(s) \in Whitespace THEN LStripSpace(Tail(s)) ELSE s

RECURSIVE RStripSpace(_)
RStripSpace(s) ==
    IF s # <<>> /\ s[Len(s)] \in Whitespace
    THEN RStripSpace(SubSeq(s, 1, Len(s) - 1))
    ELSE s

\* s.strip()
StripSpace(s) == RStripSpace(LStripSpace(s))

\* s.split('\n') from position i on, cur being the line collected so far.
RECURSIVE SplitFrom(_, _, _)
SplitFrom(s, i, cur) ==
    IF i > Len(s) THEN <<cur>>
    ELSE IF s[i] = "\n" THEN <<cur>> \o SplitFrom(s, i + 1, <<>>)
    ELSE SplitFrom(s, i + 1, Append(cur, s[i]))

SplitLines(s) == SplitFrom(s, 1, <<>>)

\* "\n".join(lines)
RECURSIVE JoinLines(_)
JoinLines(lines) ==
    IF lines = <<>> THEN <<>>
    ELSE IF Len(lines) = 1 THEN lines[1]
    ELSE lines[1] \o <<"\n">> \o JoinLines(Tail(lines))

\* c.upper() of a header word; other characters cannot begin a header.
Upper(c) ==
    CASE c \in {"WEBVTT", "webvtt"}      -> "WEBVTT"
      [] c \in {"KIND:", "Kind:"}        -> "KIND:"
      [] c \in {"LANGUAGE:", "Language:"} -> "LANGUAGE:"
      [] OTHER                           -> c

Digits == {"0", "1"}

\* '-->' in line
HasArrow(line) ==
    \E i \in 1 .. Len(line) - 2 :
        line[i] = "-" /\ line[i + 1] = "-" /\ line[i + 2] = ">"

\* IsSkipped without the cue-number test.
IsSkippedKeepingNumbers(line) ==
    \/ line = <<>>
    \/ HasArrow(line)
    \/ Upper(Head(line)) \in {"WEBVTT", "KIND:", "LANGUAGE:"}

\* Line 23: the stripped line is dropped.
IsSkipped(line) ==
    \/ line = <<>>
    \/ HasArrow(line)
    \/ \A i \in DOMAIN line : line[i] \in Digits
    \/ Upper(Head(line)) \in {"WEBVTT", "KIND:", "LANGUAGE:"}

\* The first position from i on that holds a ">", 0 when there is none.
RECURSIVE NextClose(_, _)
NextClose(line, i) ==
    IF i > Len(line) THEN 0
    ELSE IF line[i] = ">" THEN i
    ELSE NextClose(line, i + 1)

\* re.sub(r'<[^>]+>', '', line) from position i on: a "<", at least one
\* character that is not ">", and the next ">" are removed; scanning goes on
\* after the match.
RECURSIVE RemoveTagsFrom(_, _)
RemoveTagsFrom(line, i) ==
    IF i > Len(line) THEN <<>>
    ELSE IF line[i] = "<" /\ NextClose(line, i + 1) > i + 1
         THEN RemoveTagsFrom(line, NextClose(line, i + 1) + 1)
         ELSE <<line[i]>> \o RemoveTagsFrom(line, i + 1)

RemoveTags(line) == RemoveTagsFrom(line, 1)

\* html.unescape of one character.
UnescapeChar(c) ==
    CASE c = "&lt;"  -> "<"
      [] c = "&gt;"  -> ">"
      [] c = "&amp;" -> "&"
      [] OTHER       -> c

\* html.unescape(line)
Unescape(line) == [i \in DOMAIN line |-> UnescapeChar(line[i])]

\* Line 25: cleaned_line.
CleanLine(line) == Unescape(RemoveTags(line))

\* Lines 20-26: subtitle_lines from the lines at position i on.
RECURSIVE SubtitleLinesFrom(_, _)
SubtitleLinesFrom(lines, i) ==
    IF i > Len(lines) THEN <<>>
    ELSE IF IsSkipped(StripSpace(lines[i]))
         THEN SubtitleLinesFrom(lines, i + 1)
         ELSE <<CleanLine(StripSpace(lines[i]))>> \o SubtitleLinesFrom(lines, i + 1)

\* Line 27: a line equal to the one before it is dropped.
RECURSIVE UniqueFrom(_, _)
UniqueFrom(lines, i) ==
    IF i > Len(lines) THEN <<>>
    ELSE IF i = 1 \/ lines[i] # lines[i - 1]
         THEN <<lines[i]>> \o UniqueFrom(lines, i + 1)
         ELSE UniqueFrom(lines, i + 1)

convert_vtt_to_txt(content) ==
    IF content.none \/ content.text = <<>> THEN <<>>
    ELSE JoinLines(UniqueFrom(
            SubtitleLinesFrom(SplitLines(StripSpace(content.text)), 1), 1))

\* Lines a caption document is made of: an empty and a blank line, a cue
\* number, a cue timing, headers, and cue text with padding, markup and
\* entities.
LineSamples ==
    { <<>>, <<" ">>, <<"1">>,
      <<"0", "-", "-", ">", "1">>,
      <<"WEBVTT">>, <<"webvtt">>, <<"Kind:", "a">>, <<"Language:", "a">>,
      <<"a">>, <<" ", "a">>,
      <<"<", "b", ">", "a">>, <<"<", "b", ">">>, <<"<", "b", ">", "1">>,
      <<"&lt;", "b", "&gt;">> }

\* The documents of up to MaxLines such lines.
Documents ==
    UNION {{JoinLines(lines) : lines \in [1 .. n -> LineSamples]} : n \in 0 .. MaxLines}

ConvIdle ==
    /\ vtt_content = NoText
    /\ conv_pc = "ready"
    /\ txt_out = <<>>
    /\ srt_out = <<>>
    /\ srt_again = <<>>

InitTxt ==
    /\ vtt_content \in {NoText} \cup {TextOf(d) : d \in Documents}
    /\ conv_pc = "ready"
    /\ txt_out = <<>>
    /\ srt_out = <<>>
    /\ srt_again = <<>>

ConvertToTxt ==
    /\ conv_pc = "ready"
    /\ txt_out' = convert_vtt_to_txt(vtt_content)
    /\ conv_pc' = "done"
    /\ UNCHANGED <<vtt_content, srt_out, srt_again>>
    /\ UNCHANGED <<commentVars, batchVars, zipVars, appVars>>

NextTxt == ConvertToTxt

----------------------------------------------------------------------------
(***************************************************************************)
(* convert_vtt_to_srt (utils/subtitle_handler.py 31-38), on texts as lists *)
(* of characters, the word "WEBVTT" counting as one.                       *)
(***************************************************************************)

\* re.sub(r'WEBVTT\s*', '', s) from position i on; after a "WEBVTT" the
\* whitespace that follows it is skipped too.
RECURSIVE RemoveHeaderFrom(_, _, _)
RemoveHeaderFrom(s, i, skipping) ==
    IF i > Len(s) THEN <<>>
    ELSE IF s[i] = "WEBVTT" THEN RemoveHeaderFrom(s, i + 1, TRUE)
    ELSE IF skipping /\ s[i] \in Whitespace THEN RemoveHeaderFrom(s, i + 1, TRUE)
    ELSE <<s[i]>> \o RemoveHeaderFrom(s, i + 1, FALSE)

\* Line 34: content without the header word, stripped.
RemoveHeader(s) == StripSpace(RemoveHeaderFrom(s, 1, FALSE))

\* (\d{2}:\d{2}:\d{2})\.(\d{3}) matches at position i.
TimestampAt(s, i) ==
    /\ i >= 1
    /\ i + 11 <= Len(s)
    /\ \A k \in {0, 1, 3, 4, 6, 7, 9, 10, 11} : s[i + k] \in Digits
    /\ s[i + 2] = ":"
    /\ s[i + 5] = ":"
    /\ s[i + 8] = "."

\* Line 37: re.sub(r'(\d{2}:\d{2}:\d{2})\.(\d{3})', r'\1,\2', s) from
\* position i on; after a match, matching goes on behind it.
RECURSIVE RewriteTimestampsFrom(_, _)
RewriteTimestampsFrom(s, i) ==
    IF i > Len(s) THEN <<>>
    ELSE IF TimestampAt(s, i)
         THEN SubSeq(s, i, i + 7) \o <<",">> \o SubSeq(s, i + 9, i + 11)
                  \o RewriteTimestampsFrom(s, i + 12)
         ELSE <<s[i]>> \o RewriteTimestampsFrom(s, i + 1)

convert_vtt_to_srt(content) ==
    IF content.none \/ content.text = <<>> THEN <<>>
    ELSE RewriteTimestampsFrom(RemoveHeader(content.text), 1)

\* Pieces of text: a timestamp, the tail of a timestamp, a timestamp cut in
\* two, the arrow between two timestamps, a period, a digit, a letter, a
\* blank, a line break and the header word.
Pieces ==
    { <<"0", "0", ":", "0", "0", ":", "0", "1", ".", "0", "0", "0">>,
      <<":", "0", "0", ":", "0", "0", ".", "0", "0", "0">>,
      <<"0", "0", ":", "0", "0", ":", "0">>,
      <<"1", ".", "0", "0", "0">>,
      <<" ", "-", "-", ">", " ">>,
      <<".">>, <<"0">>, <<"x">>, <<" ">>, <<"\n">>, <<"WEBVTT">> }

RECURSIVE Concat(_)
Concat(pieces) ==
    IF pieces = <<>> THEN <<>> ELSE Head(pieces) \o Concat(Tail(pieces))

\* The texts made of up to MaxPieces pieces.
PieceTexts ==
    UNION {{Concat(ps) : ps \in [1 .. n -> Pieces]} : n \in 0 .. MaxPieces}

InitSrt ==
    /\ vtt_content \in {NoText} \cup {TextOf(t) : t \in PieceTexts}
    /\ conv_pc = "ready"
    /\ txt_out = <<>>
    /\ srt_out = <<>>
    /\ srt_again = <<>>

\* convert_vtt_to_srt, and once more on its own output.
ConvertToSrt ==
    /\ conv_pc = "ready"
    /\ srt_out' = convert_vtt_to_srt(vtt_content)
    /\ srt_again' = convert_vtt_to_srt(TextOf(srt_out'))
    /\ conv_pc' = "done"
    /\ UNCHANGED <<vtt_content, txt_out>>
    /\ UNCHANGED <<commentVars, batchVars, zipVars, appVars>>

NextSrt == ConvertToSrt

----------------------------------------------------------------------------
(***************************************************************************)
(* app.py: the page.  Every user event runs its callback (if any) and then *)
(* the script from the top: app_pc = "body" is that run, and no other      *)
(* event is taken until it ends.                                           *)
(***************************************************************************)

\* What the user may have typed into the URL field.
Urls == {"", " ", "u1"}

\* url_input.strip()
Strip(u) == IF u = " " THEN "" ELSE u

NoVttFormats(lang) == <<[ext |-> "json3", url |-> UrlOf(lang, 1)]>>
VttFormats(lang) ==
    <<[ext |-> "json3", url |-> UrlOf(lang, 1)], [ext |-> "vtt", url |-> UrlOf(lang, 2)]>>

NoInfo == [none |-> TRUE, subtitles |-> EmptyMap, automatic_captions |-> EmptyMap]

\* Metadata documents the provider may return for a URL.
ProviderDocs ==
    { [none |-> FALSE,
       subtitles |-> [l \in Langs |-> IF l = "en" THEN VttFormats(l) ELSE NoVttFormats(l)],
       automatic_captions |-> [l \in {"fr"} |-> VttFormats(l)]],
      [none |-> FALSE,
       subtitles |-> EmptyMap,
       automatic_captions |-> [l \in Langs |-> VttFormats(l)]],
      [none |-> FALSE,
       subtitles |-> EmptyMap,
       automatic_captions |-> [l \in {"fr"} |-> VttFormats(l)]] }

\* The COMMON_LANGS prefix a language code starts with, "" when none.
CommonPrefixOf(lang) == IF lang = "en" THEN "en" ELSE ""

\* get_available_subtitles (fetch_info.py 38-54): every authored track, and an
\* automatic track only for a common language that has no authored track.
\* (With one language per common prefix the first-per-prefix rule is moot.)
get_available_subtitles(doc) ==
    LET autos == {l \in DOMAIN doc.automatic_captions :
                    CommonPrefixOf(l) # "" /\ l \notin DOMAIN doc.subtitles}
    IN  [l \in DOMAIN doc.subtitles \cup autos |->
            IF l \in DOMAIN doc.subtitles
            THEN [auto |-> FALSE, formats |-> doc.subtitles[l]]
            ELSE [auto |-> TRUE,  formats |-> doc.automatic_captions[l]]]

\* all_sub_info as download_subtitles_in_batch reads it: only 'formats'.
FormatsOf(subs) == [l \in DOMAIN subs |-> subs[l].formats]

\* The result of one provider call.
ProviderOutcomes ==
    {[kind |-> "doc", doc |-> d] : d \in ProviderDocs}
        \cup {[kind |-> k, doc |-> NoInfo] : k \in {"none", "err429", "error"}}

\* IsRateLimited with the signal test dropped: every failure is retried.
IsRateLimitedAny(o) == o.kind # "doc"

\* 'HTTP Error 429' in str(e).  The ValueError raised for a None document
\* does not contain it.
IsRateLimited(o) == o.kind = "err429"

----------------------------------------------------------------------------
(***************************************************************************)
(* st.cache_data(ttl=3600) around download_subtitles_in_batch, keyed by    *)
(* the call's arguments.  An entry is served while it is younger than ttl, *)
(* counted from when it was stored; reading does not renew it.             *)
(***************************************************************************)

TickSeconds == ttl \div 2

EmptyCache == [k \in {} |-> [value |-> EmptyMap, stored_at |-> 0, before_parse |-> FALSE]]

EmptyLog == [k \in {} |-> [at |-> 0, value |-> EmptyMap]]

\* The arguments of a call from the page: the URL text, the language list
\* and st.session_state.subtitles.
CacheKey(url, langs, subs) == [url |-> url, langs |-> langs, catalog |-> subs]

\* Fresh without the expiry: an entry is served however old it is.
FreshForever(c, key, t) == key \in DOMAIN c

Fresh(c, key, t) == key \in DOMAIN c /\ t - c[key].stored_at < ttl

Put(f, key, entry) == [k \in DOMAIN f \cup {key} |-> IF k = key THEN entry ELSE f[k]]

\* The languages download_subtitles_in_batch issues a GET for.
BatchRequests(langs, catalog) ==
    IF NothingToDo(langs, catalog) THEN {} ELSE DOMAIN ResolveTargetUrls(langs, catalog)

\* download_subtitles_in_batch's body as one step: outcomes[l] is how the GET
\* for language l ends.
BatchBody(langs, catalog, outcomes) ==
    IF NothingToDo(langs, catalog) THEN EmptyMap
    ELSE IF DOMAIN ResolveTargetUrls(langs, catalog) = {} THEN AllNone(langs)
    ELSE [l \in DOMAIN ResolveTargetUrls(langs, catalog) |->
            CollectedValue(ResolveTargetUrls(langs, catalog)[l], outcomes[l]).value]

\* The decorated function called at time t.
CachedBatch(c, key, t, outcomes) ==
    IF Fresh(c, key, t)
    THEN [hit |-> TRUE, value |-> c[key].value, requests |-> {}, cache |-> c,
          stale |-> c[key].before_parse]
    ELSE LET v == BatchBody(key.langs, FormatsOf(key.catalog), outcomes)
         IN  [hit |-> FALSE, value |-> v,
              requests |-> BatchRequests(key.langs, FormatsOf(key.catalog)),
              cache |-> Put(c, key, [value |-> v, stored_at |-> t, before_parse |-> FALSE]),
              stale |-> FALSE]

\* A parse request is submitted: what the cache holds was stored before it.
StoredBeforeParse(c) == [k \in DOMAIN c |-> [c[k] EXCEPT !.before_parse = TRUE]]

\* ClearCache with the clear() call missing: the entries stay.
ClearCacheKept(c) == c

\* download_subtitles_in_batch.clear()
ClearCache(c) == EmptyCache

NoCall ==
    [op |-> "none", lang |-> "", fmt |-> "", fetchable |-> FALSE, hit |-> FALSE,
     requests |-> {}, resolvable |-> FALSE, value |-> EmptyMap, stale |-> FALSE,
     near_call |-> FALSE, same_as_call |-> FALSE,
     near_fetch |-> FALSE, same_as_fetch |-> FALSE]

\* The record of one call: what it did, and how it relates to the previous
\* call and the previous executed call with the same key.
Observe(op, lang, fmt, key, t, outcome, r, calls, fetches) ==
    [op |-> op, lang |-> lang, fmt |-> fmt, fetchable |-> outcome = "ok",
     hit |-> r.hit, requests |-> r.requests,
     resolvable |-> BatchRequests(key.langs, FormatsOf(key.catalog)) # {},
     value |-> r.value, stale |-> r.stale,
     near_call |-> key \in DOMAIN calls /\ t - calls[key].at < ttl,
     same_as_call |-> key \in DOMAIN calls /\ r.value = calls[key].value,
     near_fetch |-> key \in DOMAIN fetches /\ t - fetches[key].at < ttl,
     same_as_fetch |-> key \in DOMAIN fetches /\ r.value = fetches[key].value]

----------------------------------------------------------------------------
(***************************************************************************)
(* app.py: session state, handlers and the script run.                     *)
(***************************************************************************)

\* How a GET issued from the page may end (the error classes all yield None).
NetOutcomes == {"ok", "timeout"}

\* The values of the format multiselect.
FormatChoices == {<<>>, <<"txt">>}

NoContent == [kind |-> "None", lang |-> "", fmt |-> "", n |-> 0]

\* content_bytes for a caption body (app.py 84-102, 302-322): the header plus
\* the plain text for "txt", the converted document for "srt" (bodies stand
\* for caption documents with at least one cue, so neither is empty), and
\* None for any other format.
ContentBytes(lang, fmt, raw) ==
    IF fmt \in {"txt", "srt"}
    THEN [kind |-> "bytes", lang |-> lang, fmt |-> fmt, n |-> raw.n]
    ELSE NoContent

OkItem(lang, fmt, raw) ==
    [key |-> <<lang, fmt>>, content |-> ContentBytes(lang, fmt, raw), err |-> ""]

FailedItem(lang, fmt) ==
    [key |-> <<lang, fmt>>, content |-> NoContent, err |-> "failed or empty"]

\* `item[1]` as a condition.
HasBytes(item) == item.content # NoContent

\* dict.get(lang)
Get(map, l) == IF l \in DOMAIN map THEN map[l] ELSE NoneVal

LangOrder == <<"en", "fr">>

\* sorted(list(selected_langs))
RECURSIVE SortedFrom(_, _)
SortedFrom(S, i) ==
    IF i > Len(LangOrder) THEN <<>>
    ELSE IF LangOrder[i] \in S THEN <<LangOrder[i]>> \o SortedFrom(S, i + 1)
    ELSE SortedFrom(S, i + 1)

SortedLangs(S) == SortedFrom(S, 1)

\* app.py 295-323: the items appended for the languages from position i on.
RECURSIVE ItemsFrom(_, _, _, _)
ItemsFrom(langs, i, fmts, contents) ==
    IF i > Len(langs) THEN <<>>
    ELSE [j \in 1 .. Len(fmts) |->
            IF Truthy(Get(contents, langs[i]))
            THEN OkItem(langs[i], fmts[j], Get(contents, langs[i]))
            ELSE FailedItem(langs[i], fmts[j])]
         \o ItemsFrom(langs, i + 1, fmts, contents)

\* app.py 270-327: the download button's block; outcomes[l] is how the GET for
\* language l ends.
DownloadBlock(selected, fmts, subs, outcomes) ==
    IF selected = {} \/ fmts = <<>> THEN <<>>
    ELSE LET sorted_langs == SortedLangs(selected)
             urls == ResolveTargetUrls(sorted_langs, FormatsOf(subs))
             all_contents == [l \in DOMAIN urls |-> CollectedValue(urls[l], outcomes[l]).value]
         IN  ItemsFrom(sorted_langs, 1, fmts, all_contents)

\* app.py 104-110: the first item whose key is (lang, fmt), 0 when none.
RECURSIVE IndexOfKey(_, _, _)
IndexOfKey(items, key, i) ==
    IF i > Len(items) THEN 0
    ELSE IF items[i].key = key THEN i
    ELSE IndexOfKey(items, key, i + 1)

\* A retry that adds the new item at the end instead of replacing the failed
\* one.
RetryResultsAppended(items, lang, fmt, all_contents) ==
    IF ~Truthy(Get(all_contents, lang)) THEN items
    ELSE Append(items, [key |-> <<lang, fmt>>,
                        content |-> ContentBytes(lang, fmt, Get(all_contents, lang)),
                        err |-> ""])

\* retry_single_download's effect on processed_results, given what
\* download_subtitles_in_batch returned (app.py 81-113).
RetryResults(items, lang, fmt, all_contents) ==
    IF ~Truthy(Get(all_contents, lang)) THEN items
    ELSE IF IndexOfKey(items, <<lang, fmt>>, 1) = 0 THEN items
    ELSE [items EXCEPT ![IndexOfKey(items, <<lang, fmt>>, 1)] =
            [key |-> <<lang, fmt>>,
             content |-> ContentBytes(lang, fmt, Get(all_contents, lang)),
             err |-> ""]]

Unchecked == [l \in Langs |-> FALSE]

\* The language and format widgets are on the page.
SubtitleOptionsShown == ~info.none /\ DOMAIN subtitles # {}

InitApp ==
    /\ url_input = ""
    /\ info = NoInfo
    /\ subtitles = EmptyMap
    /\ selected_langs = {}
    /\ chk = Unchecked
    /\ select_all_langs_cb = FALSE
    /\ selected_formats = <<"txt">>
    /\ preview_lang = ""
    /\ processed_results = <<>>
    /\ download_clicked = FALSE
    /\ app_pc = "idle"
    /\ info_attempt = 0
    /\ info_trace = <<>>
    /\ info_result = "none"
    /\ cache = EmptyCache
    /\ now = 0
    /\ call_log = EmptyLog
    /\ fetch_log = EmptyLog
    /\ last_call = NoCall
    /\ invalidated = {}

otherVars == <<commentVars, batchVars, zipVars, convVars>>

\* Time passes between two events.
Tick ==
    /\ app_pc = "idle"
    /\ now < MaxTicks * TickSeconds
    /\ now' = now + TickSeconds
    /\ UNCHANGED <<url_input, info, subtitles, selected_langs, chk, select_all_langs_cb,
                   selected_formats, preview_lang, processed_results, download_clicked,
                   app_pc, info_attempt, info_trace, info_result, cache,
                   call_log, fetch_log, last_call, invalidated>>
    /\ UNCHANGED otherVars

\* app.py 141-173, up to the call of fetch_video_info: the parse button
\* submits the form with URL text u.
SubmitParse(u) ==
    /\ app_pc = "idle"
    /\ url_input' = u
    /\ cache' = ClearCache(StoredBeforeParse(cache))
    /\ info' = NoInfo
    /\ subtitles' = EmptyMap
    /\ processed_results' = <<>>
    /\ preview_lang' = ""
    /\ selected_langs' = {}
    /\ chk' = Unchecked
    /\ download_clicked' = FALSE
    /\ info_attempt' = 0
    /\ info_trace' = <<>>
    /\ IF Strip(u) # ""
       THEN app_pc' = "info_calling" /\ info_result' = "running"
       ELSE app_pc' = "body" /\ info_result' = "none"
    /\ call_log' = EmptyLog
    /\ fetch_log' = EmptyLog
    /\ last_call' = NoCall
    /\ invalidated' = DOMAIN cache \ DOMAIN cache'
    /\ UNCHANGED <<select_all_langs_cb, selected_formats, now>>
    /\ UNCHANGED otherVars

\* fetch_video_info 23-36: one pass of the loop; the provider call ends in o.
InfoCall(o) ==
    /\ app_pc = "info_calling"
    /\ info_trace' = Append(info_trace, [ev |-> "call", kind |-> o.kind, secs |-> 0])
    /\ IF o.kind = "doc"
       THEN /\ info' = o.doc
            /\ subtitles' = get_available_subtitles(o.doc)
            /\ info_result' = "returned"
            /\ app_pc' = "body"
       ELSE IF IsRateLimited(o) /\ info_attempt < max_retries
       THEN /\ app_pc' = "info_sleeping"
            /\ UNCHANGED <<info, subtitles, info_result>>
       ELSE /\ info_result' = "raised"
            /\ app_pc' = "body"
            /\ UNCHANGED <<info, subtitles>>
    /\ UNCHANGED <<url_input, selected_langs, chk, select_all_langs_cb, selected_formats,
                   preview_lang, processed_results, download_clicked, info_attempt,
                   cache, now, call_log, fetch_log, last_call, invalidated>>
    /\ UNCHANGED otherVars

\* fetch_video_info 32-34: time.sleep(5), then the next pass.
InfoSleep ==
    /\ app_pc = "info_sleeping"
    /\ info_trace' = Append(info_trace, [ev |-> "sleep", kind |-> "", secs |-> backoff_seconds])
    /\ info_attempt' = info_attempt + 1
    /\ app_pc' = "info_calling"
    /\ UNCHANGED <<url_input, info, subtitles, selected_langs, chk, select_all_langs_cb,
                   selected_formats, preview_lang, processed_results, download_clicked,
                   info_result, cache, now, call_log, fetch_log, last_call, invalidated>>
    /\ UNCHANGED otherVars

\* reset_page (app.py 34-53), the reset button's callback.
ResetPage ==
    /\ app_pc = "idle"
    /\ cache' = ClearCache(cache)
    /\ url_input' = ""
    /\ info' = NoInfo
    /\ subtitles' = EmptyMap
    /\ selected_langs' = {}
    /\ selected_formats' = <<"txt">>
    /\ processed_results' = <<>>
    /\ preview_lang' = ""
    /\ chk' = Unchecked
    /\ select_all_langs_cb' = FALSE
    /\ download_clicked' = FALSE
    /\ info_attempt' = 0
    /\ info_trace' = <<>>
    /\ info_result' = "none"
    /\ call_log' = EmptyLog
    /\ fetch_log' = EmptyLog
    /\ last_call' = NoCall
    /\ invalidated' = DOMAIN cache \ DOMAIN cache'
    /\ app_pc' = "body"
    /\ UNCHANGED now
    /\ UNCHANGED otherVars

\* handle_select_all (app.py 185-196): the select-all checkbox is flipped.
ToggleSelectAll ==
    /\ app_pc = "idle"
    /\ SubtitleOptionsShown
    /\ select_all_langs_cb' = ~select_all_langs_cb
    /\ selected_langs' = IF select_all_langs_cb' THEN DOMAIN subtitles ELSE {}
    /\ chk' = [l \in Langs |-> IF l \in DOMAIN subtitles THEN select_all_langs_cb' ELSE chk[l]]
    /\ app_pc' = "body"
    /\ UNCHANGED <<url_input, info, subtitles, selected_formats, preview_lang,
                   processed_results, download_clicked, info_attempt, info_trace,
                   info_result, cache, now, call_log, fetch_log, last_call, invalidated>>
    /\ UNCHANGED otherVars

\* handle_single_lang_toggle (app.py 198-209): one language's checkbox is
\* flipped.
ToggleLang(lang) ==
    /\ app_pc = "idle"
    /\ SubtitleOptionsShown
    /\ lang \in DOMAIN subtitles
    /\ chk' = [chk EXCEPT ![lang] = ~chk[lang]]
    /\ selected_langs' = IF chk'[lang] THEN selected_langs \cup {lang}
                                       ELSE selected_langs \ {lang}
    /\ select_all_langs_cb' = (DOMAIN subtitles # {} /\ selected_langs' = DOMAIN subtitles)
    /\ app_pc' = "body"
    /\ UNCHANGED <<url_input, info, subtitles, selected_formats, preview_lang,
                   processed_results, download_clicked, info_attempt, info_trace,
                   info_result, cache, now, call_log, fetch_log, last_call, invalidated>>
    /\ UNCHANGED otherVars

\* The format multiselect is changed (app.py 261-266).
ChooseFormats(fmts) ==
    /\ app_pc = "idle"
    /\ SubtitleOptionsShown
    /\ fmts # selected_formats
    /\ selected_formats' = fmts
    /\ app_pc' = "body"
    /\ UNCHANGED <<url_input, info, subtitles, selected_langs, chk, select_all_langs_cb,
                   preview_lang, processed_results, download_clicked, info_attempt,
                   info_trace, info_result, cache, now, call_log, fetch_log,
                   last_call, invalidated>>
    /\ UNCHANGED otherVars

\* The download button is pressed (app.py 270): its block runs in the script
\* run that follows.
ClickDownload ==
    /\ app_pc = "idle"
    /\ SubtitleOptionsShown
    /\ download_clicked' = TRUE
    /\ app_pc' = "body"
    /\ UNCHANGED <<url_input, info, subtitles, selected_langs, chk, select_all_langs_cb,
                   selected_formats, preview_lang, processed_results, info_attempt,
                   info_trace, info_result, cache, now, call_log, fetch_log,
                   last_call, invalidated>>
    /\ UNCHANGED otherVars

\* Any other widget is touched (the preview selectbox, a comment option): the
\* script runs again.
Rerun ==
    /\ app_pc = "idle"
    /\ SubtitleOptionsShown
    /\ app_pc' = "body"
    /\ UNCHANGED <<url_input, info, subtitles, selected_langs, chk, select_all_langs_cb,
                   selected_formats, preview_lang, processed_results, download_clicked,
                   info_attempt, info_trace, info_result, cache, now, call_log,
                   fetch_log, last_call, invalidated>>
    /\ UNCHANGED otherVars

\* One call of the cached download_subtitles_in_batch for [lang], whose GET
\* (if one is issued) ends in outcome o; r is what the call does.
BatchCallResult(lang, o) ==
    CachedBatch(cache, CacheKey(url_input, <<lang>>, subtitles), now,
                [l \in Langs |-> o])

RecordCall(op, lang, fmt, o) ==
    LET key == CacheKey(url_input, <<lang>>, subtitles)
        r   == BatchCallResult(lang, o)
    IN  /\ cache' = r.cache
        /\ last_call' = Observe(op, lang, fmt, key, now, o, r, call_log, fetch_log)
        /\ call_log' = Put(call_log, key, [at |-> now, value |-> r.value])
        /\ fetch_log' = IF r.hit THEN fetch_log
                        ELSE Put(fetch_log, key, [at |-> now, value |-> r.value])

\* A failed item's retry button is on the page.
RetryShown(lang, fmt) ==
    \E i \in DOMAIN processed_results :
        processed_results[i].key = <<lang, fmt>> /\ ~HasBytes(processed_results[i])

\* retry_single_download (app.py 73-113), the retry button's callback.
ClickRetry(lang, fmt, o) ==
    /\ app_pc = "idle"
    /\ RetryShown(lang, fmt)
    /\ RecordCall("retry", lang, fmt, o)
    /\ processed_results' =
          RetryResults(processed_results, lang, fmt, BatchCallResult(lang, o).value)
    /\ app_pc' = "body"
    /\ UNCHANGED <<url_input, info, subtitles, selected_langs, chk, select_all_langs_cb,
                   selected_formats, preview_lang, download_clicked, info_attempt,
                   info_trace, info_result, now, invalidated>>
    /\ UNCHANGED otherVars

\* The script run after an event (app.py 175-363): the widgets are rendered,
\* the preview of one selected language is fetched through the cache (245-253),
\* and the download block runs if its button was pressed.  Widgets that are
\* not rendered lose their state.
ScriptBody ==
    /\ app_pc = "body"
    /\ IF ~SubtitleOptionsShown
       THEN /\ chk' = Unchecked
            /\ select_all_langs_cb' = FALSE
            /\ preview_lang' = ""
            /\ UNCHANGED <<processed_results, cache, call_log, fetch_log, last_call>>
       ELSE /\ UNCHANGED <<chk, select_all_langs_cb>>
            /\ IF selected_langs = {}
               THEN /\ preview_lang' = ""
                    /\ UNCHANGED <<cache, call_log, fetch_log, last_call>>
               ELSE \E l \in selected_langs, o \in NetOutcomes :
                        /\ preview_lang' = l
                        /\ RecordCall("preview", l, "", o)
            /\ IF download_clicked
               THEN \E outcomes \in [Langs -> NetOutcomes] :
                        processed_results' =
                            DownloadBlock(selected_langs, selected_formats, subtitles, outcomes)
               ELSE UNCHANGED processed_results
    /\ download_clicked' = FALSE
    /\ app_pc' = "idle"
    /\ invalidated' = {}
    /\ UNCHANGED <<url_input, info, subtitles, selected_langs, selected_formats,
                   info_attempt, info_trace, info_result, now>>
    /\ UNCHANGED otherVars

NextApp ==
    \/ Tick
    \/ \E u \in Urls : SubmitParse(u)
    \/ \E o \in ProviderOutcomes : InfoCall(o)
    \/ InfoSleep
    \/ ResetPage
    \/ ToggleSelectAll
    \/ \E l \in Langs : ToggleLang(l)
    \/ \E f \in FormatChoices : ChooseFormats(f)
    \/ ClickDownload
    \/ Rerun
    \/ \E i \in DOMAIN processed_results, o \in NetOutcomes :
          ClickRetry(processed_results[i].key[1], processed_results[i].key[2], o)
    \/ ScriptBody

----------------------------------------------------------------------------
(***************************************************************************)
(* Specifications: one per component, each leaving the others at rest.     *)
(***************************************************************************)

\* fetch_comments on every bounded raw list and argument combination.
InitSpecComments == InitComments /\ BatchIdle /\ ZipIdle /\ ConvIdle /\ InitApp

SpecComments == InitSpecComments /\ [][NextComments]_vars

\* download_subtitles_in_batch / download_subtitles_concurrently on every
\* bounded request list and catalog, with the pool's tasks interleaved.
\* fetch_comments on comment threads: longer lists over fewer kinds of entry.
InitSpecThread == InitThread /\ BatchIdle /\ ZipIdle /\ ConvIdle /\ InitApp

SpecThread == InitSpecThread /\ [][NextComments]_vars

InitSpecBatch == InitBatch /\ CommentsIdle /\ ZipIdle /\ ConvIdle /\ InitApp

SpecBatch == InitSpecBatch /\ [][NextBatch]_vars

\* create_zip_in_memory on every bounded mapping.
InitSpecZip == InitZip /\ CommentsIdle /\ BatchIdle /\ ConvIdle /\ InitApp

SpecZip == InitSpecZip /\ [][NextZip]_vars

\* convert_vtt_to_txt on every document of up to MaxLines sample lines.
InitSpecTxt == InitTxt /\ CommentsIdle /\ BatchIdle /\ ZipIdle /\ InitApp

SpecTxt == InitSpecTxt /\ [][NextTxt]_vars

\* convert_vtt_to_srt on every text of up to MaxPieces pieces.
InitSpecSrt == InitSrt /\ CommentsIdle /\ BatchIdle /\ ZipIdle /\ InitApp

SpecSrt == InitSpecSrt /\ [][NextSrt]_vars

\* The page: parse, reset, selection, preview, download and retry, with the
\* cache around download_subtitles_in_batch and the passage of time.
InitSpecApp == InitApp /\ CommentsIdle /\ BatchIdle /\ ZipIdle /\ ConvIdle

SpecApp == InitSpecApp /\ [][NextApp]_vars

\* The page with the scheduling fetch_video_info runs under: the parse run is
\* one thread of control, so a provider call that was started ends, and the
\* sleep returns.
SpecAppFair ==
    /\ InitSpecApp
    /\ [][NextApp]_vars
    /\ WF_vars(\E o \in ProviderOutcomes : InfoCall(o))
    /\ WF_vars(InfoSleep)

----------------------------------------------------------------------------
(***************************************************************************)
(* Properties of fetch_comments, checked under SpecComments.               *)
(***************************************************************************)

CommentsReturned == comments_pc = "done" /\ ~comments_out.raised

ReturnedRoots == comments_out.roots

\* The replies of the result, as (root position, reply) pairs.
ReturnedReplies ==
    UNION {{<<i, ReturnedRoots[i].replies[j]>> : j \in DOMAIN ReturnedRoots[i].replies} :
            i \in DOMAIN ReturnedRoots}

RootsAndRepliesFiltered ==
    /\ \A i \in DOMAIN ReturnedRoots : ReturnedRoots[i].like_count >= min_likes
    /\ \A p \in ReturnedReplies :
          /\ p[2].like_count >= min_reply_likes
          /\ p[2].parent_cid = ReturnedRoots[p[1]].cid

\* No raw reply whose parent is not the cid of a returned root is in the result.
NoOrphanReplies ==
    \A n \in DOMAIN all_comments_raw :
        LET c == all_comments_raw[n]
        IN  (c.dict /\ c.parent \notin {"", "root"}
                /\ \A i \in DOMAIN ReturnedRoots : ReturnedRoots[i].cid # c.parent)
            => \A p \in ReturnedReplies : p[2].text # c.text

\* C1: for every raw list, top_k = K, sort mode and thresholds, fetch_comments
\* returns at most K roots, each with like_count >= min_likes, each attached
\* reply with like_count >= min_reply_likes and parent_cid equal to its root's
\* cid, and no reply whose parent is not a returned root.  A list has no
\* fewer than 0 entries, so for K < 0 "at most K" is read as "none" (as C2 says).
C1_AtMostKFilteredRoots ==
    CommentsReturned =>
        /\ Len(ReturnedRoots) <= (IF top_k >= 0 THEN top_k ELSE 0)
        /\ RootsAndRepliesFiltered
        /\ NoOrphanReplies

\* What remains of C1 when top_k is not negative (a cross-check, see C2).
C1_HoldsForNonNegativeK ==
    (CommentsReturned /\ top_k >= 0) =>
        /\ Len(ReturnedRoots) <= top_k
        /\ RootsAndRepliesFiltered
        /\ NoOrphanReplies

\* C2: for every raw list and every top_k <= 0, fetch_comments returns an
\* empty list.
C2_NonPositiveKGivesEmpty ==
    (CommentsReturned /\ top_k <= 0) => ReturnedRoots = <<>>

\* The raw list with every missing, null or non-numeric like_count read as 0.
LikesCoercedToZero(raw) ==
    [i \in DOMAIN raw |->
        IF raw[i].dict /\ raw[i].like_count.t # "int"
        THEN [raw[i] EXCEPT !.like_count = [t |-> "int", v |-> 0]]
        ELSE raw[i]]

\* C3: a record-shaped raw comment whose like_count is missing, null or
\* non-numeric counts as having 0 likes, and the build does not raise.
C3_BadLikeCountIsZero ==
    comments_pc = "done" =>
        /\ ~comments_out.raised
        /\ comments_out = BuildCommentTree(LikesCoercedToZero(all_comments_raw),
                                           top_k, sort_by, min_likes, min_reply_likes)

\* The part of C3 the code does implement: an absent like_count key is 0.
C3_MissingLikeCountIsZero ==
    (comments_pc = "done"
        /\ \A i \in DOMAIN all_comments_raw :
              all_comments_raw[i].like_count.t \in {"int", "missing"}) =>
        /\ ~comments_out.raised
        /\ comments_out = BuildCommentTree(LikesCoercedToZero(all_comments_raw),
                                           top_k, sort_by, min_likes, min_reply_likes)

\* The provider positions of the replies attached to the i-th returned root.
ReplyPosition(i, j) == ReturnedRoots[i].replies[j].text

\* The positions in the provider's list of the records whose parent
\* reference is cid and that have enough likes to be kept as replies.
QualifyingReplyPositions(cid) ==
    {n \in DOMAIN all_comments_raw :
        /\ all_comments_raw[n].dict
        /\ all_comments_raw[n].parent = cid
        /\ (IF all_comments_raw[n].like_count.t = "int"
            THEN all_comments_raw[n].like_count.v ELSE 0) >= min_reply_likes}

\* C13: the replies of every returned root are exactly the records whose
\* parent reference is the root's cid and whose like_count >= min_reply_likes,
\* in the provider's order, none missing and none twice; a root without such
\* records has an empty replies list.
C13_RepliesAreTheQualifyingOnesInOrder ==
    CommentsReturned =>
        \A i \in DOMAIN ReturnedRoots :
            LET replies == ReturnedRoots[i].replies
            IN  /\ {ReplyPosition(i, j) : j \in DOMAIN replies}
                      = QualifyingReplyPositions(ReturnedRoots[i].cid)
                /\ \A j, k \in DOMAIN replies :
                      j < k => ReplyPosition(i, j) < ReplyPosition(i, k)
                /\ \A j \in DOMAIN replies :
                      /\ replies[j].cid = all_comments_raw[ReplyPosition(i, j)].id
                      /\ replies[j].parent_cid = ReturnedRoots[i].cid

\* Root "a" first, then two replies to it: both attached, in that order.
C13_Witness ==
    /\ CommentsReturned
    /\ Len(all_comments_raw) = 3
    /\ Len(ReturnedRoots) = 1
    /\ ReturnedRoots[1].cid = "a"
    /\ Len(ReturnedRoots[1].replies) = 2
    /\ ReturnedRoots[1].replies[1].text = 2
    /\ ReturnedRoots[1].replies[2].text = 3

\* The like count the provider gave entry c, absent counting as 0.
GivenLikes(c) == IF c.like_count.t = "int" THEN c.like_count.v ELSE 0

\* The positions in the provider's list of the qualifying roots: records
\* without a parent (or with the root sentinel) and enough likes.
QualifyingRootPositions ==
    {n \in DOMAIN all_comments_raw :
        /\ all_comments_raw[n].dict
        /\ all_comments_raw[n].parent \in {"", "root"}
        /\ GivenLikes(all_comments_raw[n]) >= min_likes}

\* The provider position of the i-th returned root (its payload).
RootPosition(i) == ReturnedRoots[i].text

ReturnedPositions == {RootPosition(i) : i \in DOMAIN ReturnedRoots}

\* Every returned root is a qualifying root of the provider's list, returned
\* once, with the like count the provider gave.
RootsAreQualifyingRoots ==
    /\ ReturnedPositions \subseteq QualifyingRootPositions
    /\ \A i, j \in DOMAIN ReturnedRoots : i # j => RootPosition(i) # RootPosition(j)
    /\ \A i \in DOMAIN ReturnedRoots :
          /\ ReturnedRoots[i].like_count = GivenLikes(all_comments_raw[RootPosition(i)])
          /\ ReturnedRoots[i].cid = all_comments_raw[RootPosition(i)].id

\* "The first top_k" of a list of n: top_k of them, all n when there are
\* fewer, none when top_k <= 0.
FirstCount(k, n) == IF k <= 0 THEN 0 ELSE IF k < n THEN k ELSE n

\* Position p comes before position q in the most-liked ordering: more likes,
\* or as many and earlier in the provider's list.
BeforeByLikes(p, q) ==
    \/ GivenLikes(all_comments_raw[p]) > GivenLikes(all_comments_raw[q])
    \/ /\ GivenLikes(all_comments_raw[p]) = GivenLikes(all_comments_raw[q])
       /\ p < q

\* The returned roots are in the most-liked order and no qualifying root
\* left out comes before a returned one.
MostLikedPrefix ==
    /\ RootsAreQualifyingRoots
    /\ \A i, j \in DOMAIN ReturnedRoots :
          i < j => BeforeByLikes(RootPosition(i), RootPosition(j))
    /\ \A p \in QualifyingRootPositions \ ReturnedPositions :
          \A i \in DOMAIN ReturnedRoots : BeforeByLikes(RootPosition(i), p)

\* C12: with sort_by = 'top' the returned roots are in non-increasing
\* like_count order, equal counts in the provider's order, and they are the
\* first top_k of that ordering of all qualifying roots.
C12_MostLikedFirstTopK ==
    (CommentsReturned /\ sort_by = "top") =>
        /\ MostLikedPrefix
        /\ Len(ReturnedRoots) = FirstCount(top_k, Cardinality(QualifyingRootPositions))

\* What remains of C12 when top_k is not negative (a cross-check, see C2).
C12_HoldsForNonNegativeK ==
    (CommentsReturned /\ sort_by = "top" /\ top_k >= 0) =>
        /\ MostLikedPrefix
        /\ Len(ReturnedRoots) = FirstCount(top_k, Cardinality(QualifyingRootPositions))

\* The returned roots are in the provider's order and no qualifying root
\* left out comes before a returned one.
ProviderOrderPrefix ==
    /\ RootsAreQualifyingRoots
    /\ \A i, j \in DOMAIN ReturnedRoots : i < j => RootPosition(i) < RootPosition(j)
    /\ \A p \in QualifyingRootPositions \ ReturnedPositions :
          \A i \in DOMAIN ReturnedRoots : RootPosition(i) < p

\* C17: with sort_by = 'new' the returned roots are the first top_k
\* qualifying roots in the provider's order, their relative order unchanged.
C17_MostRecentFirstTopK ==
    (CommentsReturned /\ sort_by = "new") =>
        /\ ProviderOrderPrefix
        /\ Len(ReturnedRoots) = FirstCount(top_k, Cardinality(QualifyingRootPositions))

\* What remains of C17 when top_k is not negative (a cross-check, see C2).
C17_HoldsForNonNegativeK ==
    (CommentsReturned /\ sort_by = "new" /\ top_k >= 0) =>
        /\ ProviderOrderPrefix
        /\ Len(ReturnedRoots) = FirstCount(top_k, Cardinality(QualifyingRootPositions))

----------------------------------------------------------------------------
(***************************************************************************)
(* Properties of the subtitle retrieval, checked under SpecBatch.          *)
(***************************************************************************)

FailedOutcomes == {"http_error", "timeout", "transport", "unexpected"}

\* C5: download_subtitles_concurrently never raises, returns only when every
\* submitted task has finished, and returns a mapping with exactly the input
\* keys: the body for a track whose GET succeeded, None for one whose GET
\* failed in any way.
C5_PoolIsolatesFailures ==
    /\ ~pool_raised
    /\ batch_pc = "returned" =>
          /\ \A l \in DOMAIN futures : futures[l].state = "done"
          /\ DOMAIN batch_out = DOMAIN lang_to_url_map
          /\ \A l \in DOMAIN lang_to_url_map :
                /\ futures[l].outcome = "ok" => batch_out[l] = TextAt(lang_to_url_map[l])
                /\ futures[l].outcome = "empty" => batch_out[l] = EmptyText
                /\ futures[l].outcome \in FailedOutcomes => batch_out[l] = NoneVal

\* C5's case: two tasks, one delivering its body and one ending in an
\* exception that is not a RequestException, and the call has returned.
C5_Witness ==
    /\ batch_pc = "returned"
    /\ DOMAIN lang_to_url_map = Langs
    /\ futures["en"].outcome = "ok"
    /\ futures["fr"].outcome = "unexpected"
    /\ batch_out["en"] = TextAt(lang_to_url_map["en"])
    /\ batch_out["fr"] = NoneVal

BatchReturned ==
    batch_caller = "batch" /\ batch_pc \in {"returned", "returned_early"}

HasVtt(l) == l \in DOMAIN all_sub_info /\ FirstVtt(all_sub_info[l], 1) # 0

\* C6: download_subtitles_in_batch returns, without raising, a mapping that
\* has every requested language as a key, and a requested language with no
\* vtt encoding in the catalog maps to None.
C6_EveryRequestedLangIsKey ==
    /\ ~pool_raised
    /\ BatchReturned =>
          \A i \in DOMAIN langs_to_download :
              /\ langs_to_download[i] \in DOMAIN batch_out
              /\ ~HasVtt(langs_to_download[i]) => batch_out[langs_to_download[i]] = NoneVal

\* What the code does guarantee for C6: looking a requested language up with
\* .get() never yields content for a language without a vtt encoding.
C6_LookupOfMissingIsNone ==
    BatchReturned =>
        \A i \in DOMAIN langs_to_download :
            (~HasVtt(langs_to_download[i]) /\ langs_to_download[i] \in DOMAIN batch_out)
                => batch_out[langs_to_download[i]] = NoneVal

----------------------------------------------------------------------------
(***************************************************************************)
(* Properties of create_zip_in_memory, checked under SpecZip.              *)
(***************************************************************************)

NothingToPack ==
    \A i \in DOMAIN files_data : ~HasContent(files_data[i].content)

\* C10: create_zip_in_memory returns None, not an archive with zero entries,
\* whenever the mapping is empty or every payload in it is empty or None.
C10_NothingToPackGivesNone ==
    (zip_pc = "done" /\ NothingToPack) => zip_out.none

\* The part of C10 the code implements: the empty mapping gives None.
C10_EmptyMappingGivesNone ==
    (zip_pc = "done" /\ files_data = <<>>) => zip_out.none

\* The position of filename name in the input mapping.
PositionOf(name) == CHOOSE i \in DOMAIN files_data : files_data[i].filename = name

\* The archive's entries named name.
EntriesNamed(name) == {k \in DOMAIN zip_out.entries : zip_out.entries[k].filename = name}

\* C11: for a mapping with at least one non-empty payload the archive holds
\* exactly the items with a non-empty payload, one entry per filename, in
\* the mapping's insertion order, each payload unchanged; items with an empty
\* or absent payload are not in the archive.
C11_ArchiveIsTheNonEmptyItemsInOrder ==
    (zip_pc = "done" /\ ~NothingToPack) =>
        /\ ~zip_out.none
        /\ \A k \in DOMAIN zip_out.entries :
              \E i \in DOMAIN files_data :
                  /\ files_data[i].filename = zip_out.entries[k].filename
                  /\ files_data[i].content = zip_out.entries[k].content
        /\ \A i \in DOMAIN files_data :
              Cardinality(EntriesNamed(files_data[i].filename)) =
                  (IF files_data[i].content \in {NoBytes, EmptyBytes} THEN 0 ELSE 1)
        /\ \A p, q \in DOMAIN zip_out.entries :
              p < q => PositionOf(zip_out.entries[p].filename)
                          < PositionOf(zip_out.entries[q].filename)

\* Three items, the middle one empty: two entries, in the input's order.
C11_Witness ==
    /\ zip_pc = "done"
    /\ Len(files_data) = 3
    /\ files_data[2].content = EmptyBytes
    /\ zip_out.entries = <<files_data[1], files_data[3]>>

----------------------------------------------------------------------------
(***************************************************************************)
(* Claims about the retry button, fetch_video_info and the cache.          *)
(***************************************************************************)

\* The item (lang, fmt) of processed_results has content.
ItemSucceeded(lang, fmt) ==
    \E i \in DOMAIN processed_results :
        processed_results[i].key = <<lang, fmt>> /\ HasBytes(processed_results[i])

\* C4: every retry of a failed item issues a new retrieval attempt (it is not
\* answered from a previously stored failed result), so a failed item whose
\* resource can be fetched and has a vtt URL is successful after the retry.
C4_RetryIssuesNewAttempt ==
    (app_pc = "body" /\ last_call.op = "retry" /\ last_call.resolvable) =>
        /\ ~(last_call.hit /\ ~Truthy(Get(last_call.value, last_call.lang)))
        /\ last_call.fetchable => ItemSucceeded(last_call.lang, last_call.fmt)

\* The kind of the last provider call of the invocation.
LastInfoKind == info_trace[Len(info_trace)].kind

\* The calls and sleeps of one fetch_video_info invocation: at most two
\* provider calls; a second call only after a first call that failed with the
\* rate-limit signal and after the 5-second sleep; any other first failure is
\* raised at once; a rate-limited first call raises only if the second call
\* fails too.
InfoTraceOk ==
    /\ Len(info_trace) <= 3
    /\ \A i \in DOMAIN info_trace : info_trace[i].ev = (IF i = 2 THEN "sleep" ELSE "call")
    /\ Len(info_trace) >= 2 => info_trace[1].kind = "err429" /\ info_trace[2].secs = 5
    /\ (Len(info_trace) >= 1 /\ info_trace[1].kind \in {"error", "none"}) =>
            Len(info_trace) = 1 /\ info_result = "raised"
    /\ info_result = "raised" =>
            /\ Len(info_trace) >= 1
            /\ LastInfoKind # "doc"
            /\ info_trace[1].kind = "err429" => Len(info_trace) = 3
    /\ info_result = "returned" => Len(info_trace) >= 1 /\ LastInfoKind = "doc"
    /\ info_result = "running" <=> app_pc \in {"info_calling", "info_sleeping"}

\* C7: fetch_video_info calls the provider at most twice, retries only a
\* rate-limited first call and only after the 5-second wait, raises any other
\* first failure at once, raises after a rate-limited first call only if the
\* retry fails too, and always terminates.
C7_AtMostOneRetryAndTerminates ==
    /\ []InfoTraceOk
    /\ (info_result = "running") ~> (info_result \in {"returned", "raised"})

\* A rate-limited first call, the sleep, and a retry that failed too.
C7_Witness ==
    /\ info_result = "raised"
    /\ Len(info_trace) = 3
    /\ info_trace[1].kind = "err429"
    /\ info_trace[2] = [ev |-> "sleep", kind |-> "", secs |-> backoff_seconds]

\* C8: after a parse request is submitted the cache is empty before
\* fetch_video_info runs, and no later call of download_subtitles_in_batch
\* returns a value stored before that parse.
C8_NoValueFromBeforeParse ==
    /\ app_pc \in {"info_calling", "info_sleeping"} => cache = EmptyCache
    /\ ~last_call.stale

\* A parse request submitted while the cache held results: fetch_video_info
\* is about to run and the cache is empty.
C8_Witness ==
    /\ app_pc = "info_calling"
    /\ invalidated # {}
    /\ cache = EmptyCache

\* C9 as stated: a call less than 3600 seconds after the previous call with
\* identical arguments, with no invalidation between them, returns the same
\* mapping and issues no network request; a call with no such previous call
\* issues network requests (when a requested language has a vtt URL).
C9_TwoCallsWithinWindowAreServed ==
    last_call.op # "none" =>
        /\ last_call.near_call => last_call.same_as_call /\ last_call.requests = {}
        /\ (~last_call.near_call /\ last_call.resolvable) => last_call.requests # {}

\* C9 amended: a call is served from the cache, with the same mapping and no
\* network request, exactly when the last call with identical arguments that
\* ran the function did so less than 3600 seconds earlier with no
\* invalidation since; any other call runs the function, issuing a request
\* for each requested language that has a vtt URL.
C9_ServedWhileStoredResultIsYoung ==
    last_call.op # "none" =>
        /\ last_call.near_fetch =>
              last_call.hit /\ last_call.requests = {} /\ last_call.same_as_fetch
        /\ ~last_call.near_fetch =>
              /\ ~last_call.hit
              /\ last_call.requests = (IF last_call.resolvable THEN {last_call.lang} ELSE {})

\* A repeated call inside the window, served without a request.
C9_Witness ==
    /\ last_call.op # "none"
    /\ last_call.near_fetch
    /\ last_call.hit
    /\ last_call.requests = {}
    /\ last_call.resolvable

----------------------------------------------------------------------------
(***************************************************************************)
(* Properties of convert_vtt_to_txt, checked under SpecTxt.                *)
(***************************************************************************)

\* The output read as newline-separated lines (an empty output has none).
TxtOutLines == IF txt_out = <<>> THEN <<>> ELSE SplitLines(txt_out)

\* The input's lines, each without its leading and trailing whitespace.
TxtInLines ==
    IF vtt_content.none THEN <<>>
    ELSE [i \in DOMAIN SplitLines(vtt_content.text) |->
            StripSpace(SplitLines(vtt_content.text)[i])]

\* line contains an inline markup tag: "<", one or more characters, ">".
ContainsTag(line) ==
    \E i, j \in DOMAIN line :
        /\ j > i + 1
        /\ line[i] = "<"
        /\ line[j] = ">"
        /\ \A k \in (i + 1) .. (j - 1) : line[k] # ">"

\* C14: no line of convert_vtt_to_txt's output contains an inline markup
\* tag, also when the input carries entities that decode to angle brackets.
C14_NoTagInOutput ==
    conv_pc = "done" =>
        \A i \in DOMAIN TxtOutLines : ~ContainsTag(TxtOutLines[i])

EscapedBrackets == {"&lt;", "&gt;"}

\* The part of C14 the code implements: no tag in the output when the input
\* has no entity that decodes to an angle bracket.
C14_HoldsWithoutEscapedBrackets ==
    (conv_pc = "done" /\ ~vtt_content.none
        /\ \A i \in DOMAIN vtt_content.text : vtt_content.text[i] \notin EscapedBrackets) =>
        \A i \in DOMAIN TxtOutLines : ~ContainsTag(TxtOutLines[i])

\* An input line the output must not carry: blank, a cue number, a cue
\* timing, or a WEBVTT / Kind: / Language: header in any letter case.
DroppedKind(line) ==
    \/ line = <<>>
    \/ \A i \in DOMAIN line : line[i] \in {"0", "1"}
    \/ \E i \in DOMAIN line :
          i + 2 <= Len(line) /\ SubSeq(line, i, i + 2) = <<"-", "-", ">">>
    \/ Head(line) \in {"WEBVTT", "webvtt", "KIND:", "Kind:", "LANGUAGE:", "Language:"}

\* The positions of the input lines that carry cue text.
CueTextPositions == {i \in DOMAIN TxtInLines : ~DroppedKind(TxtInLines[i])}

----------------------------------------------------------------------------
(***************************************************************************)
(* convert_vtt_to_srt: which periods become commas.                        *)
(***************************************************************************)

SrtIn == IF vtt_content.none THEN <<>> ELSE vtt_content.text

IsPunctuation(c) == c \in {".", ","}

\* The periods and commas of a text, in order.  The conversion removes and
\* adds none of them, so the k-th of the output stands for the k-th of the
\* input.
PunctuationOf(s) == SelectSeq(s, IsPunctuation)

\* The positions of the periods and commas of a text, in order.
RECURSIVE PunctuationPositionsFrom(_, _)
PunctuationPositionsFrom(s, i) ==
    IF i > Len(s) THEN <<>>
    ELSE (IF IsPunctuation(s[i]) THEN <<i>> ELSE <<>>)
             \o PunctuationPositionsFrom(s, i + 1)

\* Position p of s is the period of a timestamp-shaped occurrence.
IsTimestampPeriod(s, p) == TimestampAt(s, p - 8)

\* C16: convert_vtt_to_srt turns the period of every timestamp-shaped
\* occurrence HH:MM:SS.mmm of its input into a comma and changes no other
\* period; applied to its own output it leaves every comma of a converted
\* timestamp a comma; empty or absent input gives "".
C16_EveryTimestampPeriodAndNoOther ==
    conv_pc = "done" =>
        LET pos == PunctuationPositionsFrom(SrtIn, 1)
            out == PunctuationOf(srt_out)
            again == PunctuationOf(srt_again)
        IN  /\ Len(out) = Len(pos)
            /\ \A k \in DOMAIN pos :
                  out[k] = IF IsTimestampPeriod(SrtIn, pos[k]) THEN "," ELSE SrtIn[pos[k]]
            /\ Len(again) = Len(out)
            /\ \A k \in DOMAIN out : out[k] = "," => again[k] = ","
            /\ SrtIn = <<>> => srt_out = <<>>

\* Position i of s starts a timestamp-shaped occurrence that begins behind
\* the end of every occurrence matched before it: none of the 11 positions
\* before i starts a matched occurrence.
RECURSIVE IsMatchedAt(_, _)
IsMatchedAt(s, i) ==
    /\ TimestampAt(s, i)
    /\ \A j \in 1 .. (i - 1) : j >= i - 11 => ~IsMatchedAt(s, j)

\* C16, as the code has it: in the text that is left when every "WEBVTT"
\* with the whitespace behind it is removed and the ends are stripped, the
\* period of every timestamp-shaped occurrence found from left to right,
\* each behind the end of the one before, becomes a comma, and no other
\* character changes; the output converted again is the output; empty or
\* absent input gives "".
C16_MatchedTimestampPeriodsAndNoOther ==
    conv_pc = "done" =>
        LET base == RemoveHeader(SrtIn)
        IN  /\ Len(srt_out) = Len(base)
            /\ \A p \in DOMAIN base :
                  srt_out[p] = IF p > 8 /\ IsMatchedAt(base, p - 8) THEN "," ELSE base[p]
            /\ \A p \in DOMAIN srt_out :
                  srt_out[p] = "," => (p \in DOMAIN srt_again /\ srt_again[p] = ",")
            /\ SrtIn = <<>> => srt_out = <<>>

\* A cue timing with two timestamps and a period behind it: both timestamps
\* converted, the last period kept.
C16_Witness ==
    /\ conv_pc = "done"
    /\ vtt_content = TextOf(<<"0", "0", ":", "0", "0", ":", "0", "1", ".", "0", "0", "0",
                              " ", "-", "-", ">", " ",
                              "0", "0", ":", "0", "0", ":", "0", "1", ".", "0", "0", "0">>)
    /\ srt_out = <<"0", "0", ":", "0", "0", ":", "0", "1", ",", "0", "0", "0",
                   " ", "-", "-", ">", " ",
                   "0", "0", ":", "0", "0", ":", "0", "1", ",", "0", "0", "0">>
    /\ srt_again = srt_out

----------------------------------------------------------------------------
(***************************************************************************)
(* retry_single_download: what it may change in processed_results.         *)
(***************************************************************************)

\* The positions of processed_results whose item differs after the step.
ChangedPositions ==
    {i \in DOMAIN processed_results :
        i \notin DOMAIN processed_results' \/ processed_results'[i] # processed_results[i]}

\* The retry of (lang, fmt) got no content: the GET was not issued or
\* failed, or the stored result has nothing for lang.
RetryFailed(lang, o) == ~Truthy(Get(BatchCallResult(lang, o).value, lang))

\* C18: retry_single_download(lang, fmt) keeps the length and the order of
\* processed_results, changes at most the one entry whose key is (lang, fmt)
\* and no other entry, leaves processed_results as it is when the retry
\* fails, and always returns to the script run (no exception reaches the
\* caller).
C18_RetryChangesOnlyItsEntry ==
    [][\A lang \in Langs, fmt \in {"txt", "srt"}, o \in NetOutcomes :
          ClickRetry(lang, fmt, o) =>
              /\ Len(processed_results') = Len(processed_results)
              /\ \A i \in DOMAIN processed_results :
                    processed_results'[i].key = processed_results[i].key
              /\ \A i \in ChangedPositions : processed_results[i].key = <<lang, fmt>>
              /\ Cardinality(ChangedPositions) <= 1
              /\ RetryFailed(lang, o) => processed_results' = processed_results
              /\ app_pc' = "body"]_vars

\* A retry of the first of two failed items has succeeded: the first item now
\* has its bytes, the second is still the failed one.
C18_Witness ==
    /\ app_pc = "body"
    /\ last_call.op = "retry"
    /\ Len(processed_results) = 2
    /\ processed_results[1].key = <<last_call.lang, last_call.fmt>>
    /\ HasBytes(processed_results[1])
    /\ ~HasBytes(processed_results[2])
    /\ processed_results[2].key[1] # last_call.lang

----------------------------------------------------------------------------
(***************************************************************************)
(* The language selection: selected_langs and the checkboxes.              *)
(***************************************************************************)

\* The languages of the catalog on the page.
CatalogLangs == DOMAIN subtitles

SelectionWithinCatalog == selected_langs \subseteq CatalogLangs

CheckboxesShowSelection == \A l \in CatalogLangs : chk[l] <=> l \in selected_langs

SelectAllShowsAll ==
    select_all_langs_cb <=> (CatalogLangs # {} /\ selected_langs = CatalogLangs)

\* C19: between any two events of the page (parse submissions, resets,
\* select-all toggles and single-language toggles), selected_langs is a
\* subset of the catalog's languages, each language's checkbox is checked
\* exactly when the language is selected, and the select-all checkbox is
\* checked exactly when the catalog is not empty and every language of it is
\* selected.
C19_SelectionInvariants ==
    app_pc = "idle" =>
        /\ SelectionWithinCatalog
        /\ CheckboxesShowSelection
        /\ SelectAllShowsAll

\* The part of C19 the code keeps: the selection is within the catalog and
\* the per-language checkboxes show it; when every language is selected the
\* select-all checkbox is checked.
C19_HoldsButForStaleSelectAll ==
    app_pc = "idle" =>
        /\ SelectionWithinCatalog
        /\ CheckboxesShowSelection
        /\ (CatalogLangs # {} /\ selected_langs = CatalogLangs) => select_all_langs_cb

====
